---- MODULE Spec2Model ----
(***************************************************************************)
(* Model of scripts/watch_marketplaces.py: the marketplace page watcher.   *)
(*                                                                         *)
(* Strings are sequences of one-character strings.  A character outside    *)
(* ASCII is written as a named token ("cyr_O", "e_acute", "ellipsis").     *)
(* A page text is the sequence of its lines (what str.splitlines() gives); *)
(* the texts the program stores have no trailing line break, so the map    *)
(* from a text to its lines is one-to-one.                                 *)
(***************************************************************************)
EXTENDS Integers, Sequences, FiniteSets, TLC

(***************************************************************************)
(* Bounds of the model.                                                    *)
(***************************************************************************)
MaxRuns == 2
MaxRetries == 3
MaxBlocks == 2
MaxTextLines == 2

(***************************************************************************)
(* Program constants.                                                      *)
(***************************************************************************)
DefaultRetries == 3
ChunkSize == 4000
PreviewMaxLines == 12
PreviewMaxLineLen == 200
PlaceholderLen == 88
HeaderLen == 71
NoChangesLen == 14
JinaSleep == 1
BackoffBase == 1

(***************************************************************************)
(* Generic helpers on sequences.                                           *)
(***************************************************************************)
Range(s) == {s[k] : k \in DOMAIN s}

Max2(a, b) == IF a >= b THEN a ELSE b

Min2(a, b) == IF a <= b THEN a ELSE b

RECURSIVE Concat(_)
\* ''.join(parts)
Concat(parts) ==
    IF parts = <<>> THEN <<>> ELSE Head(parts) \o Concat(Tail(parts))

RECURSIVE Join(_, _)
\* sep.join(parts)
Join(parts, sep) ==
    IF parts = <<>> THEN <<>>
    ELSE IF Len(parts) = 1 THEN parts[1]
    ELSE parts[1] \o sep \o Join(Tail(parts), sep)

\* s[lo:hi] of Python for 0 <= lo, 0 <= hi (0-based, half-open, clipped)
Slice(s, lo, hi) == SubSeq(s, lo + 1, Min2(hi, Len(s)))

\* All sequences over S of length 0..n
SeqsUpTo(S, n) == UNION {[1..k -> S] : k \in 0..n}

\* n copies of character c
Repeat(c, n) == [k \in 1..n |-> c]

(***************************************************************************)
(* Characters.                                                             *)
(***************************************************************************)
LowerLetters ==
    <<"a","b","c","d","e","f","g","h","i","j","k","l","m",
      "n","o","p","q","r","s","t","u","v","w","x","y","z">>

UpperLetters ==
    <<"A","B","C","D","E","F","G","H","I","J","K","L","M",
      "N","O","P","Q","R","S","T","U","V","W","X","Y","Z">>

Digits == {"0","1","2","3","4","5","6","7","8","9"}

AsciiPunct == {" ", "!", "_", "-", ".", ":", "/", "%", "<", ">", "\n", "\t"}

\* the characters str.encode("ascii", "ignore") keeps
IsAscii(c) ==
    c \in Range(LowerLetters) \cup Range(UpperLetters) \cup Digits \cup AsciiPunct

\* the class [a-zA-Z0-9] of the regular expression
IsAlnum(c) == c \in Range(LowerLetters) \cup Range(UpperLetters) \cup Digits

\* str.lower() on one ASCII character
LowerChar(c) ==
    IF c \in Range(UpperLetters)
    THEN LowerLetters[CHOOSE k \in 1..26 : UpperLetters[k] = c]
    ELSE c

\* unicodedata.normalize("NFKD", c) for one character: a precomposed accented
\* letter decomposes into its base letter and a combining mark; ASCII and
\* Cyrillic letters without a diacritic are unchanged.
NFKD(c) ==
    IF c = "e_acute" THEN <<"e", "comb_acute">>
    ELSE IF c = "cyr_short_i" THEN <<"cyr_i", "comb_breve">>
    ELSE <<c>>

\* str.isspace() for the characters str.strip() removes
IsSpace(c) == c \in {" ", "\t", "\n"}

(***************************************************************************)
(* slugify (lines 49-52).                                                  *)
(***************************************************************************)
RECURSIVE NormalizeAscii(_)
\* unicodedata.normalize("NFKD", s).encode("ascii", "ignore").decode("ascii")
NormalizeAscii(s) ==
    IF s = <<>> THEN <<>>
    ELSE SelectSeq(NFKD(Head(s)), IsAscii) \o NormalizeAscii(Tail(s))

RECURSIVE SubNonAlnum(_)
\* re.sub(r"[^a-zA-Z0-9]+", "-", s): every maximal run of characters that
\* are not letters or digits becomes one "-"
SubNonAlnum(s) ==
    IF s = <<>> THEN <<>>
    ELSE IF IsAlnum(Head(s)) THEN <<Head(s)>> \o SubNonAlnum(Tail(s))
    ELSE IF Len(s) >= 2 /\ ~IsAlnum(s[2]) THEN SubNonAlnum(Tail(s))
    ELSE <<"-">> \o SubNonAlnum(Tail(s))

RECURSIVE LStripChars(_, _)
LStripChars(s, cs) ==
    IF s # <<>> /\ Head(s) \in cs THEN LStripChars(Tail(s), cs) ELSE s

RECURSIVE RStripChars(_, _)
RStripChars(s, cs) ==
    IF s # <<>> /\ s[Len(s)] \in cs
    THEN RStripChars(SubSeq(s, 1, Len(s) - 1), cs) ELSE s

\* str.strip(chars)
StripChars(s, cs) == RStripChars(LStripChars(s, cs), cs)

\* str.lower()
Lower(s) == [k \in DOMAIN s |-> LowerChar(s[k])]

slugify(s) ==
    LET r == Lower(StripChars(SubNonAlnum(NormalizeAscii(s)), {"-"}))
    IN  IF r = <<>> THEN <<"i","t","e","m">> ELSE r

(***************************************************************************)
(* sha256 (lines 62-63): a fixed function of the text, taken to be free of *)
(* collisions; the digest is a value of another kind than the text.        *)
(***************************************************************************)
sha256(text) == [sha256 |-> text]

(***************************************************************************)
(* difflib.SequenceMatcher and difflib.Differ, as difflib.ndiff (line 163) *)
(* uses them.  Indices are Python's: 0-based, ranges half-open.  The       *)
(* "popular element" heuristic of SequenceMatcher applies only to          *)
(* sequences of 200 or more elements and is left out.                      *)
(***************************************************************************)
\* the blocks a[i:i+k] = b[j:j+k] (k >= 1) made of elements that are not junk
CommonBlocks(a, b, alo, ahi, blo, bhi, junk) ==
    {m \in (alo..(ahi - 1)) \X (blo..(bhi - 1)) \X (1..Min2(ahi - alo, bhi - blo)) :
        /\ m[1] + m[3] <= ahi
        /\ m[2] + m[3] <= bhi
        /\ \A t \in 1..m[3] : a[m[1] + t] = b[m[2] + t] /\ b[m[2] + t] \notin junk}

RECURSIVE ExtendJunkLeft(_, _, _, _, _, _)
\* find_longest_match: "while besti > alo and bestj > blo and
\* isbjunk(b[bestj-1]) and a[besti-1] == b[bestj-1]"
ExtendJunkLeft(a, b, alo, blo, junk, m) ==
    IF m[1] > alo /\ m[2] > blo /\ b[m[2]] \in junk /\ a[m[1]] = b[m[2]]
    THEN ExtendJunkLeft(a, b, alo, blo, junk, <<m[1] - 1, m[2] - 1, m[3] + 1>>)
    ELSE m

RECURSIVE ExtendJunkRight(_, _, _, _, _, _)
\* find_longest_match: "while besti+bestsize < ahi and bestj+bestsize < bhi
\* and isbjunk(b[bestj+bestsize]) and a[besti+bestsize] == b[bestj+bestsize]"
ExtendJunkRight(a, b, ahi, bhi, junk, m) ==
    IF /\ m[1] + m[3] < ahi
       /\ m[2] + m[3] < bhi
       /\ b[m[2] + m[3] + 1] \in junk
       /\ a[m[1] + m[3] + 1] = b[m[2] + m[3] + 1]
    THEN ExtendJunkRight(a, b, ahi, bhi, junk, <<m[1], m[2], m[3] + 1>>)
    ELSE m

\* the longest of the blocks M, the one starting earliest in a and then
\* earliest in b; <<alo, blo, 0>> when there is none
BestBlock(M, alo, blo) ==
    IF M = {} THEN <<alo, blo, 0>>
    ELSE CHOOSE m \in M : \A n \in M :
            \/ m[3] > n[3]
            \/ m[3] = n[3] /\ m[1] < n[1]
            \/ m[3] = n[3] /\ m[1] = n[1] /\ m[2] <= n[2]

\* SequenceMatcher.find_longest_match: the longest block free of junk,
\* extended by equal junk on both sides
find_longest_match(a, b, alo, ahi, blo, bhi, junk) ==
    ExtendJunkRight(a, b, ahi, bhi, junk,
        ExtendJunkLeft(a, b, alo, blo, junk,
            BestBlock(CommonBlocks(a, b, alo, ahi, blo, bhi, junk), alo, blo)))

RECURSIVE MatchingBlocksIn(_, _, _, _, _, _, _), MatchingBlocksAround(_, _, _, _, _, _, _, _)
\* SequenceMatcher.get_matching_blocks on a[alo:ahi], b[blo:bhi], in order
MatchingBlocksIn(a, b, alo, ahi, blo, bhi, junk) ==
    IF alo >= ahi \/ blo >= bhi THEN <<>>
    ELSE MatchingBlocksAround(a, b, alo, ahi, blo, bhi, junk,
             find_longest_match(a, b, alo, ahi, blo, bhi, junk))

\* the blocks left of the longest match m, m itself, the blocks right of it
MatchingBlocksAround(a, b, alo, ahi, blo, bhi, junk, m) ==
    IF m[3] = 0 THEN <<>>
    ELSE MatchingBlocksIn(a, b, alo, m[1], blo, m[2], junk)
         \o <<m>>
         \o MatchingBlocksIn(a, b, m[1] + m[3], ahi, m[2] + m[3], bhi, junk)

get_matching_blocks(a, b, junk) ==
    MatchingBlocksIn(a, b, 0, Len(a), 0, Len(b), junk)

RECURSIVE SumSizes(_)
SumSizes(blocks) ==
    IF blocks = <<>> THEN 0 ELSE Head(blocks)[3] + SumSizes(Tail(blocks))

\* SequenceMatcher.ratio() = 2.0 * matches / (len(a) + len(b)), kept as the
\* pair <<numerator, denominator>>
ratio(a, b, junk) ==
    <<2 * SumSizes(get_matching_blocks(a, b, junk)), Len(a) + Len(b)>>

\* r > s for ratios with positive denominators
RatioGreater(r, s) == r[1] * s[2] > s[1] * r[2]

\* difflib.IS_CHARACTER_JUNK: blank and tab
CharJunk == {" ", "\t"}

\* Differ._dump(tag, x, lo, hi): one line "<tag> <x[i]>" for lo <= i < hi
Dump(tag, x, lo, hi) == [k \in 1..(hi - lo) |-> <<tag, " ">> \o x[lo + k]]

\* Differ._plain_replace: the shorter block is dumped first
PlainReplace(a, alo, ahi, b, blo, bhi) ==
    IF bhi - blo < ahi - alo
    THEN Dump("+", b, blo, bhi) \o Dump("-", a, alo, ahi)
    ELSE Dump("-", a, alo, ahi) \o Dump("+", b, blo, bhi)

\* SequenceMatcher.ratio() of the lines a[i] and b[j] (0-based)
LineRatio(a, b, p) == ratio(a[p[1] + 1], b[p[2] + 1], CharJunk)

\* Differ._fancy_replace: the pairs of different lines whose similarity is
\* above best_ratio = 0.74
SimilarPairs(a, alo, ahi, b, blo, bhi) ==
    {p \in (alo..(ahi - 1)) \X (blo..(bhi - 1)) :
        /\ a[p[1] + 1] # b[p[2] + 1]
        /\ RatioGreater(LineRatio(a, b, p), <<74, 100>>)}

\* Differ._fancy_replace: the pairs of identical lines
EqualPairs(a, alo, ahi, b, blo, bhi) ==
    {p \in (alo..(ahi - 1)) \X (blo..(bhi - 1)) : a[p[1] + 1] = b[p[2] + 1]}

\* the pairs of S with the greatest similarity
MostSimilar(a, b, S) ==
    {p \in S : \A q \in S : ~RatioGreater(LineRatio(a, b, q), LineRatio(a, b, p))}

\* the pair the loops "for j ...: for i ..." of _fancy_replace meet first
FirstPair(P) ==
    CHOOSE p \in P : \A q \in P : p[2] < q[2] \/ (p[2] = q[2] /\ p[1] <= q[1])

\* Differ._fancy_replace: the synch pair, <<i, j, similar>>: the most similar
\* pair of different lines, else the first pair of identical lines, else none
SynchPair(a, b, S, E) ==
    IF S # {} THEN FirstPair(MostSimilar(a, b, S)) \o <<"similar">>
    ELSE IF E # {} THEN FirstPair(E) \o <<"equal">>
    ELSE <<0, 0, "none">>

RECURSIVE FancyHelper(_, _, _, _, _, _), FancyAround(_, _, _, _, _, _, _)
\* Differ._fancy_helper, with the Differ._fancy_replace it calls when both
\* ranges are non-empty
FancyHelper(a, alo, ahi, b, blo, bhi) ==
    IF alo < ahi /\ blo < bhi
    THEN FancyAround(a, alo, ahi, b, blo, bhi,
             SynchPair(a, b, SimilarPairs(a, alo, ahi, b, blo, bhi),
                             EqualPairs(a, alo, ahi, b, blo, bhi)))
    ELSE IF alo < ahi THEN Dump("-", a, alo, ahi)
    ELSE IF blo < bhi THEN Dump("+", b, blo, bhi)
    ELSE <<>>

\* Differ._fancy_replace once the synch pair is known: what is left of the
\* pair, the pair, what is right of it.  The "? " guide lines of a similar
\* pair are left out: such a line is never the first line of the diff and
\* diff_preview takes neither text nor a decision from it.
FancyAround(a, alo, ahi, b, blo, bhi, best) ==
    IF best[3] = "none" THEN PlainReplace(a, alo, ahi, b, blo, bhi)
    ELSE FancyHelper(a, alo, best[1], b, blo, best[2])
         \o (IF best[3] = "equal" THEN Dump(" ", a, best[1], best[1] + 1)
             ELSE Dump("-", a, best[1], best[1] + 1)
                  \o Dump("+", b, best[2], best[2] + 1))
         \o FancyHelper(a, best[1] + 1, ahi, b, best[2] + 1, bhi)

\* Differ._fancy_replace, called for a replace of non-empty ranges
FancyReplace(a, alo, ahi, b, blo, bhi) == FancyHelper(a, alo, ahi, b, blo, bhi)

\* the opcode before a matching block m when the cursor is at (i, j)
Gap(a, b, i, j, m) ==
    IF i < m[1] /\ j < m[2] THEN FancyReplace(a, i, m[1], b, j, m[2])
    ELSE IF i < m[1] THEN Dump("-", a, i, m[1])
    ELSE IF j < m[2] THEN Dump("+", b, j, m[2])
    ELSE <<>>

RECURSIVE CompareFrom(_, _, _, _, _)
\* Differ.compare over SequenceMatcher.get_opcodes(): before each matching
\* block a replace, delete or insert, then the block itself as equal lines
CompareFrom(a, b, blocks, i, j) ==
    IF blocks = <<>> THEN <<>>
    ELSE Gap(a, b, i, j, Head(blocks))
         \o Dump(" ", a, Head(blocks)[1], Head(blocks)[1] + Head(blocks)[3])
         \o CompareFrom(a, b, Tail(blocks), Head(blocks)[1] + Head(blocks)[3],
                        Head(blocks)[2] + Head(blocks)[3])

\* difflib.ndiff(a, b) with linejunk=None: the lines of the delta
ndiff(a, b) ==
    CompareFrom(a, b, get_matching_blocks(a, b, {}) \o <<<<Len(a), Len(b), 0>>>>, 0, 0)

(***************************************************************************)
(* diff_preview (lines 155-175).  old and new are given as their lines     *)
(* (old.splitlines(), new.splitlines()); the result is the returned string.*)
(***************************************************************************)
MarkAdded == "heavy_plus"

MarkRemoved == "heavy_minus"

Ellipsis == "ellipsis"

\* line 174: the fixed text returned when no line was collected
Placeholder == Repeat("p", PlaceholderLen)

\* s[:n] of Python, n possibly negative
Prefix(s, n) ==
    IF n >= 0 THEN SubSeq(s, 1, Min2(n, Len(s)))
    ELSE SubSeq(s, 1, Max2(0, Len(s) + n))

\* str.strip()
Strip(s) == StripChars(s, {" ", "\t", "\n"})

StartsWith(s, p) == Len(s) >= Len(p) /\ SubSeq(s, 1, Len(p)) = p

\* lines 166-170: the preview line of one "+ " or "- " line of the delta
PreviewLine(line, max_line_len) ==
    LET mark == IF StartsWith(line, <<"+", " ">>) THEN MarkAdded ELSE MarkRemoved
        txt  == Strip(SubSeq(line, 3, Len(line)))
        cut  == IF Len(txt) > max_line_len
                THEN Prefix(txt, max_line_len - 1) \o <<Ellipsis>>
                ELSE txt
    IN  <<mark, " ">> \o cut

RECURSIVE PreviewLoop(_, _, _, _)
\* lines 164-172: the loop over the delta, with its break
PreviewLoop(d, out, max_lines, max_line_len) ==
    IF d = <<>> THEN out
    ELSE LET line == Head(d)
             out2 == IF StartsWith(line, <<"+", " ">>) \/ StartsWith(line, <<"-", " ">>)
                     THEN Append(out, PreviewLine(line, max_line_len))
                     ELSE out
         IN  IF Len(out2) >= max_lines THEN out2
             ELSE PreviewLoop(Tail(d), out2, max_lines, max_line_len)

\* the list "out" when the loop ends
PreviewOut(old, new, max_lines, max_line_len) ==
    PreviewLoop(ndiff(old, new), <<>>, max_lines, max_line_len)

diff_previewNoPlaceholder(old, new, max_lines, max_line_len) ==
    Join(PreviewOut(old, new, max_lines, max_line_len), <<"\n">>)

diff_preview(old, new, max_lines, max_line_len) ==
    LET out == PreviewOut(old, new, max_lines, max_line_len)
    IN  IF out = <<>> THEN Placeholder ELSE Join(out, <<"\n">>)

\* the positions of the line breaks of s
LineBreaks(s) == {k \in DOMAIN s : s[k] = "\n"}

\* the position of the n-th line break of s, 0 for n = 0
NthLineBreak(s, n) ==
    IF n = 0 THEN 0
    ELSE CHOOSE k \in LineBreaks(s) : Cardinality({j \in LineBreaks(s) : j < k}) = n - 1

\* str.splitlines() for a string whose only line break is "\n"
splitlines(s) ==
    [n \in 1..(Cardinality(LineBreaks(s))
                 + (IF s = <<>> \/ s[Len(s)] = "\n" THEN 0 ELSE 1)) |->
        SubSeq(s, NthLineBreak(s, n - 1) + 1,
               IF n <= Cardinality(LineBreaks(s)) THEN NthLineBreak(s, n) - 1 ELSE Len(s))]

(***************************************************************************)
(* Errors.  An exception is its class name and its message.                *)
(***************************************************************************)
Error(cls, msg) == [cls |-> cls, msg |-> msg]

\* "no exception": the None that last_err starts with
NoError == Error("None", <<>>)

\* requests.HTTPError of raise_for_status(); the message names the status
HTTPError(status) ==
    Error("HTTPError",
          IF status = 403 THEN <<"4","0","3">>
          ELSE IF status = 404 THEN <<"4","0","4">>
          ELSE <<"5","x","x">>)

\* a failure of the primary request that is no HTTPError (no connection,
\* time-out, a challenge cloudscraper cannot solve, a parser error)
TransportError == Error("ConnectionError", <<"d","o","w","n">>)

\* the failure of the reader request to the k-th candidate address; the
\* message of a requests exception names the address requested
JinaError(k) == Error("ReadTimeout", <<"j", IF k = 1 THEN "1" ELSE "2">>)

\* "raise None" (line 143 after no attempt at all)
RaiseNoneError == Error("TypeError", <<"n","o","n","e">>)

(***************************************************************************)
(* What the network answers: the environment of one fetch_page call.       *)
(***************************************************************************)
\* the primary request: a page whose cleaned text is t (lines 118-124)
PrimaryOk(t) == [k |-> "ok", status |-> 200, text |-> t]

\* the primary request: raise_for_status() raises for this status
PrimaryHttp(status) == [k |-> "http", status |-> status, text |-> <<>>]

\* the primary request: any other exception
PrimaryExc == [k |-> "exc", status |-> 0, text |-> <<>>]

\* a reader request: a 2xx answer whose normalized body is t (maybe empty)
JinaBody(t) == [k |-> "body", text |-> t]

\* a reader request: an exception (status, connection, time-out)
JinaFail == [k |-> "fail", text |-> <<>>]

\* line 129
BlockedStatuses == {401, 403, 429, 500, 502, 503, 504}

\* line 45
OZON_HOSTS == {<<"s","e","l","l","e","r",".","o","z","o","n",".","r","u">>,
               <<"s","e","l","l","e","r","-","e","d","u",".","o","z","o","n",".","r","u">>}

\* "sub in s" of Python strings
Contains(s, sub) ==
    \E k \in 0..(Len(s) - Len(sub)) : SubSeq(s, k + 1, k + Len(sub)) = sub

\* lines 84: url.startswith("http://") or url.startswith("https://")
HasScheme(url) ==
    \/ StartsWith(url, <<"h","t","t","p",":","/","/">>)
    \/ StartsWith(url, <<"h","t","t","p","s",":","/","/">>)

\* lines 82-85: how many reader addresses are tried
NumBases(url) == IF HasScheme(url) THEN 1 ELSE 2

\* line 110
use_cloud(url) == \E h \in OZON_HOSTS : Contains(url, h)

Event(ev, n) == [ev |-> ev, n |-> n]

(***************************************************************************)
(* fetch_via_jina (lines 77-101).  outs[k] is the answer to the request to *)
(* the k-th candidate address.                                             *)
(***************************************************************************)
RECURSIVE JinaLoop(_, _, _, _, _)
JinaLoop(url, outs, k, last_err, trace) ==
    IF k > NumBases(url)
    THEN IF last_err # NoError
         THEN [ret |-> "raise", text |-> <<>>, err |-> last_err, trace |-> trace]
         ELSE [ret |-> "return", text |-> <<>>, err |-> NoError, trace |-> trace]
    ELSE LET t1 == Append(trace, Event("jina_get", k))
         IN  IF outs[k].k = "body"
             THEN IF Len(outs[k].text) > 0
                  THEN [ret |-> "return", text |-> outs[k].text,
                        err |-> NoError, trace |-> t1]
                  ELSE JinaLoop(url, outs, k + 1, last_err, t1)
             ELSE JinaLoop(url, outs, k + 1, JinaError(k),
                           Append(t1, Event("jina_sleep", JinaSleep)))

fetch_via_jinaRaisesOnEmpty(url, outs) ==
    IF /\ JinaLoop(url, outs, 1, NoError, <<>>).ret = "return"
       /\ JinaLoop(url, outs, 1, NoError, <<>>).text = <<>>
    THEN [JinaLoop(url, outs, 1, NoError, <<>>) EXCEPT
             !.ret = "raise", !.err = Error("ValueError", <<"e","m","p","t","y">>)]
    ELSE JinaLoop(url, outs, 1, NoError, <<>>)

fetch_via_jina(url, outs) == JinaLoop(url, outs, 1, NoError, <<>>)

(***************************************************************************)
(* fetch_page (lines 103-143).  script[n + 1] is what the network answers  *)
(* during the attempt with index n: .p to the primary request, .j to the   *)
(* reader requests.  The result records the events of the call in order;   *)
(* the event before a primary request names the client it is made with.    *)
(***************************************************************************)
FetchResult(ret, text, err, via, trace, url) ==
    [ret |-> ret, text |-> text, err |-> err, via |-> via, trace |-> trace,
     client |-> IF use_cloud(url) THEN "cloudscraper" ELSE "requests"]

EscalatesOnlyBlocked(o) == o.k = "http" /\ o.status \in BlockedStatuses

EscalatesOnlyTransport(o) == o.k = "exc"

\* lines 129 and 135: which failures of the primary request go to the reader
Escalates(o) == o.k = "exc" \/ (o.k = "http" /\ o.status \in BlockedStatuses)

BackoffConstant(attempt) == BackoffBase

\* lines 134 and 142: the seconds slept after the attempt failed
Backoff(attempt) == BackoffBase + attempt

RECURSIVE FetchLoop(_, _, _, _, _, _, _)
FetchLoop(url, retries, script, attempt, last_err, trace, session) ==
    IF attempt >= retries
    THEN FetchResult("raise", <<>>,
                     IF last_err = NoError THEN RaiseNoneError ELSE last_err,
                     "none", trace, url)
    ELSE LET o  == script[attempt + 1].p
             t1 == trace \o <<Event(session, attempt), Event("primary", attempt)>>
         IN  IF o.k = "ok"
             THEN FetchResult("return", o.text, NoError, "primary", t1, url)
             ELSE LET e == IF o.k = "http" THEN HTTPError(o.status) ELSE TransportError
                  IN  IF Escalates(o)
                      THEN LET jr == fetch_via_jina(url, script[attempt + 1].j)
                               t2 == Append(t1, Event("fallback", attempt)) \o jr.trace
                           IN  IF jr.ret = "return"
                               THEN FetchResult("return", jr.text, NoError,
                                                "fallback", t2, url)
                               ELSE FetchLoop(url, retries, script, attempt + 1, jr.err,
                                        t2 \o <<Event("fallback_failed", attempt),
                                                Event("sleep", Backoff(attempt))>>,
                                        session)
                      ELSE FetchLoop(url, retries, script, attempt + 1, e,
                               Append(t1, Event("sleep", Backoff(attempt))), session)

fetch_pagePlainClient(url, retries, script) ==
    FetchLoop(url, retries, script, 0, NoError, <<>>, "requests")

\* lines 110-113: the client of every request of the call
Session(url) == IF use_cloud(url) THEN "cloudscraper" ELSE "requests"

fetch_page(url, retries, script) ==
    FetchLoop(url, retries, script, 0, NoError, <<>>, Session(url))

(***************************************************************************)
(* The inputs the model draws from.                                        *)
(***************************************************************************)
\* two versions of a page, each of one line
TextFee5 == << <<"F","e","e","5">> >>

TextFee7 == << <<"F","e","e","7">> >>

PageTexts == {TextFee5, TextFee7}

\* the statuses raise_for_status() is made to raise for
HttpStatuses == {403, 404}

UrlOzon == <<"h","t","t","p","s",":","/","/","s","e","l","l","e","r",".","o","z","o","n",".","r","u">>

UrlWb == <<"h","t","t","p",":","/","/","w","b",".","r","u">>

UrlYa == <<"y","a",".","r","u">>

Urls == {UrlOzon, UrlWb, UrlYa}

\* the answers of the reader to one request
JinaOuts(T) == {JinaBody(t) : t \in T \cup {<<>>}} \cup {JinaFail}

JinaReturns(o) == o.k = "body" /\ Len(o.text) > 0

\* the answers to the reader requests of one fetch_via_jina call: one per
\* request made (no request follows an answer with a body)
JinaScripts(url, T) ==
    {js \in UNION {[1..n -> JinaOuts(T)] : n \in 1..NumBases(url)} :
        /\ \A k \in 1..(Len(js) - 1) : ~JinaReturns(js[k])
        /\ Len(js) = NumBases(url) \/ JinaReturns(js[Len(js)])}

\* what the network answers during one attempt
AttemptOutcomes(url, T) ==
    {[p |-> PrimaryOk(t), j |-> <<>>] : t \in T}
    \cup {[p |-> PrimaryHttp(st), j |-> <<>>] : st \in HttpStatuses \ BlockedStatuses}
    \cup {[p |-> o, j |-> js] :
            o \in {PrimaryHttp(st) : st \in HttpStatuses \cap BlockedStatuses}
                    \cup {PrimaryExc},
            js \in JinaScripts(url, T)}

Scripts(url, T, retries) == [1..retries -> AttemptOutcomes(url, T)]

\* what main sees of a fetch_page(url, selector) call (line 198): the text
\* returned or the exception raised
FetchOutcomes ==
    [u \in Urls |->
        {[ret |-> r.ret, text |-> r.text, err |-> r.err, via |-> r.via] :
            r \in {fetch_page(u, DefaultRetries, sc) :
                     sc \in Scripts(u, PageTexts, DefaultRetries)}}]

(***************************************************************************)
(* The configuration data/urls.json: a list of items {name?, url}.  The    *)
(* selector of an item only narrows the page before clean_text and is part *)
(* of what the page text stands for.                                       *)
(***************************************************************************)
Item(has_name, name, url) == [has_name |-> has_name, name |-> name, url |-> url]

\* two Cyrillic names, a Latin name with an accent, and an item with no name
ItemOzon == Item(TRUE, <<"cyr_O","cyr_z","cyr_o","cyr_n">>, UrlOzon)

ItemYa == Item(TRUE, <<"cyr_Ya","cyr_m">>, UrlYa)

ItemWb == Item(TRUE, <<"W","B"," ","e_acute","!">>, UrlWb)

ItemOzonEdu == Item(FALSE, <<>>, UrlOzon)

\* the configurations: none, one item, two items with one key ("item") and
\* two urls, two items with one url and two keys, two items sharing nothing
Configs ==
    {<<>>, <<ItemWb>>, <<ItemOzon, ItemYa>>, <<ItemOzon, ItemOzonEdu>>,
     <<ItemYa, ItemWb>>}

\* line 190: item.get("name", "Unnamed")
ItemName(item) ==
    IF item.has_name THEN item.name ELSE <<"U","n","n","a","m","e","d">>

\* line 193
ItemKey(item) == slugify(ItemName(item))

(***************************************************************************)
(* The state.                                                              *)
(***************************************************************************)
VARIABLES
    urls,             \* data/urls.json, as load_json reads it (line 180)
    hashes_file,      \* data/last_hash.json: url -> digest
    state_files,      \* data/state/<key>.txt: key -> text
    creds,            \* TELEGRAM_BOT_TOKEN and TELEGRAM_CHAT_ID are both set
    pc,               \* where the run of main is
    run,              \* the number of runs started
    hashes,           \* main's dict "hashes"
    i,                \* the index of the next item of "for item in urls"
    changes_blocks,   \* main's list "changes_blocks"
    sendpos,          \* the i of "for i in range(0, len(full), 4000)"
    calls,            \* the messages tg_send was called with, in order
    posted,           \* the messages tg_send posted to the API, in order
    saves,            \* history: how often this run wrote data/last_hash.json
    last,             \* history: what the loop body did for the item it ran last
    log,              \* history: per item of this run, how its iteration ended
    own_text,         \* history: per item, the text its iterations stored last
    pre_hashes_file,  \* history: data/last_hash.json when the run started
    pre_state_files,  \* history: data/state/ when the run started
    f_url, f_retries, f_script, f_res,             \* one fetch_page call
    d_old, d_new, d_max_lines, d_max_line_len, d_res, d_pc  \* one diff_preview call

mainVars ==
    <<urls, hashes_file, state_files, creds, pc, run, hashes, i, changes_blocks,
      sendpos, calls, posted, saves, last, log, own_text, pre_hashes_file,
      pre_state_files>>

fetchVars == <<f_url, f_retries, f_script, f_res>>

diffVars == <<d_old, d_new, d_max_lines, d_max_line_len, d_res, d_pc>>

vars == <<mainVars, fetchVars, diffVars>>

(***************************************************************************)
(* Dictionaries and files.                                                 *)
(***************************************************************************)
EmptyDict == [x \in {} |-> <<>>]

\* d[k] = v
Put(d, k, v) == [x \in DOMAIN d \cup {k} |-> IF x = k THEN v ELSE d[x]]

\* d.get(k): <<v>>, or <<>> for None
Get(d, k) == IF k \in DOMAIN d THEN <<d[k]>> ELSE <<>>

\* line 204: the text of the file, "" when there is none
ReadOrEmpty(files, key) == IF key \in DOMAIN files THEN files[key] ELSE <<>>

(***************************************************************************)
(* The message blocks (lines 201 and 214-218) and the digest (226-229).    *)
(***************************************************************************)
Block(kind, name, url, preview, err) ==
    [kind |-> kind, name |-> name, url |-> url, preview |-> preview, err |-> err]

ChangeHead == <<"arrows", " ", "<", "b", ">">>

ChangeAfterName == <<"<", "/", "b", ">", "\n">>

ChangeSource == <<"\n", "<", "i", ">">> \o Repeat("cyr", 8) \o <<":", "<", "/", "i", ">", " ">>

ErrorHead == <<"warning", "vs16", " ", "<", "b", ">">>

ErrorAfterName ==
    <<"<", "/", "b", ">", "\n", "<", "i", ">">> \o Repeat("cyr", 6) \o <<" ">>
        \o Repeat("cyr", 7) \o <<":", "<", "/", "i", ">", " ">>

\* the text of a block; the class name of the exception counts as one character
RenderBlock(b) ==
    IF b.kind = "change"
    THEN ChangeHead \o b.name \o ChangeAfterName \o b.preview \o ChangeSource \o b.url
    ELSE ErrorHead \o b.name \o ErrorAfterName \o <<b.err.cls>> \o <<":", " ">> \o b.err.msg

\* line 226: the header, of fixed length (the time stamp has 20 characters)
Header == Repeat("h", HeaderLen)

\* line 234
NoChangesText == Repeat("n", NoChangesLen)

\* "\n\n"
BlockSeparator == <<"\n", "\n">>

\* line 229: header + "\n\n".join(changes_blocks)
Full(blocks) ==
    Header \o Join([k \in DOMAIN blocks |-> RenderBlock(blocks[k])], BlockSeparator)

\* line 230: range(0, len(full), 4000)
ChunkStarts(full) == {n \in 0..(Len(full) - 1) : n % ChunkSize = 0}

ChunkOverlapping(full, n) == Slice(full, n, n + ChunkSize + 1)

\* line 231: full[i:i+4000]
Chunk(full, n) == Slice(full, n, n + ChunkSize)

(***************************************************************************)
(* The body of "for item in urls" (lines 190-219) for one item, given what *)
(* fetch_page did (r): the new hashes, state files and blocks, and a       *)
(* record of what was done.                                                *)
(***************************************************************************)
Did(r, changed, prev_digest, prev_content) ==
    [idx |-> 0, ret |-> r.ret, via |-> r.via, text |-> r.text, err |-> r.err,
     changed |-> changed, prev_digest |-> prev_digest, prev_content |-> prev_content]

FetchFailedGenericError(item, r, h, files, blocks) ==
    [hashes |-> h, files |-> files,
     blocks |-> Append(blocks, Block("error", ItemName(item), item.url, <<>>,
                                     Error("Exception", <<>>))),
     did |-> Did(r, FALSE, <<>>, <<>>)]

FetchFailedSilent(item, r, h, files, blocks) ==
    [hashes |-> h, files |-> files, blocks |-> blocks, did |-> Did(r, FALSE, <<>>, <<>>)]

FetchFailedForgets(item, r, h, files, blocks) ==
    [hashes |-> [u \in DOMAIN h \ {item.url} |-> h[u]],
     files |-> [k \in DOMAIN files \ {ItemKey(item)} |-> files[k]],
     blocks |-> Append(blocks, Block("error", ItemName(item), item.url, <<>>, r.err)),
     did |-> Did(r, FALSE, <<>>, <<>>)]

\* lines 200-202: fetch_page raised: an error block, nothing else
FetchFailed(item, r, h, files, blocks) ==
    [hashes |-> h, files |-> files,
     blocks |-> Append(blocks, Block("error", ItemName(item), item.url, <<>>, r.err)),
     did |-> Did(r, FALSE, <<>>, <<>>)]

IsChangedSkipsFirst(prev_digest, digest) ==
    prev_digest # <<>> /\ prev_digest # <<digest>>

\* line 207: prev_digest != digest (prev_digest is None when nothing is stored)
IsChanged(prev_digest, digest) == prev_digest # <<digest>>

FetchSucceededRewrites(item, r, h, files, blocks) ==
    IF IsChanged(Get(h, item.url), sha256(r.text))
    THEN [hashes |-> Put(h, item.url, sha256(r.text)),
          files |-> Put(files, ItemKey(item), r.text),
          blocks |-> Append(blocks,
                        Block("change", ItemName(item), item.url,
                              diff_preview(ReadOrEmpty(files, ItemKey(item)), r.text,
                                           PreviewMaxLines, PreviewMaxLineLen),
                              NoError)),
          did |-> Did(r, TRUE, Get(h, item.url), ReadOrEmpty(files, ItemKey(item)))]
    ELSE [hashes |-> h, files |-> Put(files, ItemKey(item), r.text), blocks |-> blocks,
          did |-> Did(r, FALSE, Get(h, item.url), ReadOrEmpty(files, ItemKey(item)))]

FetchSucceededSkipsSnapshot(item, r, h, files, blocks) ==
    IF IsChanged(Get(h, item.url), sha256(r.text))
    THEN [hashes |-> Put(h, item.url, sha256(r.text)),
          files |-> files,
          blocks |-> Append(blocks,
                        Block("change", ItemName(item), item.url,
                              diff_preview(ReadOrEmpty(files, ItemKey(item)), r.text,
                                           PreviewMaxLines, PreviewMaxLineLen),
                              NoError)),
          did |-> Did(r, TRUE, Get(h, item.url), ReadOrEmpty(files, ItemKey(item)))]
    ELSE [hashes |-> h, files |-> files, blocks |-> blocks,
          did |-> Did(r, FALSE, Get(h, item.url), ReadOrEmpty(files, ItemKey(item)))]

\* lines 204-219: fetch_page returned r.text
FetchSucceeded(item, r, h, files, blocks) ==
    IF IsChanged(Get(h, item.url), sha256(r.text))
    THEN [hashes |-> Put(h, item.url, sha256(r.text)),
          files |-> Put(files, ItemKey(item), r.text),
          blocks |-> Append(blocks,
                        Block("change", ItemName(item), item.url,
                              diff_preview(ReadOrEmpty(files, ItemKey(item)), r.text,
                                           PreviewMaxLines, PreviewMaxLineLen),
                              NoError)),
          did |-> Did(r, TRUE, Get(h, item.url), ReadOrEmpty(files, ItemKey(item)))]
    ELSE [hashes |-> h, files |-> files, blocks |-> blocks,
          did |-> Did(r, FALSE, Get(h, item.url), ReadOrEmpty(files, ItemKey(item)))]

\* lines 197-202: the try around fetch_page and sha256
LoopBody(item, r, h, files, blocks) ==
    IF r.ret = "raise" THEN FetchFailed(item, r, h, files, blocks)
    ELSE FetchSucceeded(item, r, h, files, blocks)

NoLast == [idx |-> 0, ret |-> "none", via |-> "none", text |-> <<>>, err |-> NoError,
           changed |-> FALSE, prev_digest |-> <<>>, prev_content |-> <<>>]

\* the history entry of an iteration
LogEntry(did) == [ret |-> did.ret, changed |-> did.changed, text |-> did.text]

(***************************************************************************)
(* The actions of a run of main (lines 179-235).                           *)
(***************************************************************************)
\* lines 180-187: an external trigger starts a run; the configuration and
\* the hashes are loaded; an empty configuration ends the run at once
StartRun ==
    /\ pc \in {"idle", "done", "crashed", "failed"}
    /\ run < MaxRuns
    /\ run' = run + 1
    /\ creds' \in BOOLEAN
    /\ hashes' = hashes_file
    /\ i' = 1
    /\ changes_blocks' = <<>>
    /\ sendpos' = 0
    /\ calls' = <<>>
    /\ posted' = <<>>
    /\ saves' = 0
    /\ last' = NoLast
    /\ log' = <<>>
    /\ pre_hashes_file' = hashes_file
    /\ pre_state_files' = state_files
    /\ pc' = IF urls = <<>> THEN "done" ELSE "loop"
    /\ UNCHANGED <<urls, hashes_file, state_files, own_text, fetchVars, diffVars>>

\* the loop body run for item i with r what fetch_page did
Iterate(r) ==
    /\ hashes' = LoopBody(urls[i], r, hashes, state_files, changes_blocks).hashes
    /\ state_files' = LoopBody(urls[i], r, hashes, state_files, changes_blocks).files
    /\ changes_blocks' = LoopBody(urls[i], r, hashes, state_files, changes_blocks).blocks
    /\ last' = [LoopBody(urls[i], r, hashes, state_files, changes_blocks).did
                   EXCEPT !.idx = i]
    /\ log' = Append(log, LogEntry(last'))
    /\ own_text' = IF last'.changed THEN [own_text EXCEPT ![i] = r.text] ELSE own_text
    /\ i' = i + 1

\* lines 189-219: one iteration of the loop
ProcessTarget ==
    /\ pc = "loop"
    /\ i <= Len(urls)
    /\ \E r \in FetchOutcomes[urls[i].url] : Iterate(r)
    /\ UNCHANGED <<urls, hashes_file, creds, pc, run, sendpos, calls, posted, saves,
                   pre_hashes_file, pre_state_files, fetchVars, diffVars>>

\* the process ends inside the loop: an exception outside the try of lines
\* 197-202 (KeyError of item["url"], OSError of read_text or write_text), or
\* the job is killed
Crash ==
    /\ pc = "loop"
    /\ pc' = "crashed"
    /\ UNCHANGED <<urls, hashes_file, state_files, creds, run, hashes, i,
                   changes_blocks, sendpos, calls, posted, saves, last, log, own_text,
                   pre_hashes_file, pre_state_files, fetchVars, diffVars>>

SaveHashesDeferred ==
    /\ pc = "loop"
    /\ i > Len(urls)
    /\ pc' = "notify"
    /\ UNCHANGED <<urls, hashes_file, state_files, creds, run, hashes, i, changes_blocks,
                   sendpos, calls, posted, saves, last, log, own_text, pre_hashes_file,
                   pre_state_files, fetchVars, diffVars>>

SaveHashesIfChanged ==
    /\ pc = "loop"
    /\ i > Len(urls)
    /\ hashes_file' = IF changes_blocks # <<>> THEN hashes ELSE hashes_file
    /\ saves' = IF changes_blocks # <<>> THEN saves + 1 ELSE saves
    /\ pc' = "notify"
    /\ UNCHANGED <<urls, state_files, creds, run, hashes, i, changes_blocks, sendpos,
                   calls, posted, last, log, own_text, pre_hashes_file,
                   pre_state_files, fetchVars, diffVars>>

\* line 222: save_json(HASHES_FILE, hashes), after the loop
SaveHashes ==
    /\ pc = "loop"
    /\ i > Len(urls)
    /\ hashes_file' = hashes
    /\ saves' = saves + 1
    /\ pc' = "notify"
    /\ UNCHANGED <<urls, state_files, creds, run, hashes, i, changes_blocks, sendpos,
                   calls, posted, last, log, own_text, pre_hashes_file,
                   pre_state_files, fetchVars, diffVars>>

TgSendSwallowsFailure(message, next) ==
    /\ calls' = Append(calls, message)
    /\ pc' = next
    /\ \/ /\ ~creds
          /\ posted' = posted
       \/ /\ creds
          /\ posted' = Append(posted, message)
       \/ /\ creds
          /\ posted' = posted

\* tg_send(message) (lines 145-153) called with the process at "next" after
\* it: without credentials nothing is posted; with them the message is
\* posted, or the request fails and the exception ends the run
TgSend(message, next) ==
    /\ calls' = Append(calls, message)
    /\ \/ /\ ~creds
          /\ posted' = posted
          /\ pc' = next
       \/ /\ creds
          /\ posted' = Append(posted, message)
          /\ pc' = next
       \/ /\ creds
          /\ posted' = posted
          /\ pc' = "failed"

\* lines 228-232: one iteration of the loop over the chunks
SendChunk ==
    /\ pc = "notify"
    /\ changes_blocks # <<>>
    /\ sendpos \in ChunkStarts(Full(changes_blocks))
    /\ sendpos' = sendpos + ChunkSize
    /\ TgSend(Chunk(Full(changes_blocks), sendpos),
              IF sendpos + ChunkSize \in ChunkStarts(Full(changes_blocks))
              THEN "notify" ELSE "done")
    /\ UNCHANGED <<urls, hashes_file, state_files, creds, run, hashes, i,
                   changes_blocks, saves, last, log, own_text, pre_hashes_file,
                   pre_state_files, fetchVars, diffVars>>

\* lines 233-235
SendNoChanges ==
    /\ pc = "notify"
    /\ changes_blocks = <<>>
    /\ TgSend(Header \o NoChangesText, "done")
    /\ UNCHANGED <<urls, hashes_file, state_files, creds, run, hashes, i,
                   changes_blocks, sendpos, saves, last, log, own_text,
                   pre_hashes_file, pre_state_files, fetchVars, diffVars>>

NoFetch ==
    /\ f_url = <<>>
    /\ f_retries = 0
    /\ f_script = <<>>
    /\ f_res = FetchResult("none", <<>>, NoError, "none", <<>>, <<>>)

NoDiff ==
    /\ d_old = <<>>
    /\ d_new = <<>>
    /\ d_max_lines = 0
    /\ d_max_line_len = 0
    /\ d_res = <<>>
    /\ d_pc = "none"

\* no run yet, nothing stored
NoRun ==
    /\ hashes_file = EmptyDict
    /\ state_files = EmptyDict
    /\ creds = FALSE
    /\ pc = "idle"
    /\ run = 0
    /\ hashes = EmptyDict
    /\ i = 1
    /\ changes_blocks = <<>>
    /\ sendpos = 0
    /\ calls = <<>>
    /\ posted = <<>>
    /\ saves = 0
    /\ last = NoLast
    /\ log = <<>>
    /\ pre_hashes_file = EmptyDict
    /\ pre_state_files = EmptyDict

\* before the first run: a configuration, no state yet
Init ==
    /\ urls \in Configs
    /\ own_text = [k \in DOMAIN urls |-> <<>>]
    /\ NoRun
    /\ NoFetch
    /\ NoDiff

Next ==
    \/ StartRun
    \/ ProcessTarget
    \/ Crash
    \/ SaveHashes
    \/ SendChunk
    \/ SendNoChanges

Spec == Init /\ [][Next]_vars

\* the runs when nothing ends the process inside the loop: main is one
\* sequential program, so a step that can be taken is taken
NextLive ==
    \/ StartRun
    \/ ProcessTarget
    \/ SaveHashes
    \/ SendChunk
    \/ SendNoChanges

SpecLive ==
    /\ Init
    /\ [][NextLive]_vars
    /\ WF_vars(ProcessTarget)
    /\ WF_vars(SaveHashes)
    /\ WF_vars(SendChunk)
    /\ WF_vars(SendNoChanges)

(***************************************************************************)
(* One iteration of the loop with the network scripted: fetch_page is run  *)
(* on the script (line 198), then the rest of the body on its result.      *)
(***************************************************************************)
FetchTexts == {TextFee5}

FetchItems == {ItemOzon, ItemYa, ItemWb}

\* nothing stored yet, or the state a run leaves that stored t for the item
StoredNothing ==
    /\ hashes_file = EmptyDict
    /\ state_files = EmptyDict
    /\ own_text = << <<>> >>

Stored(t) ==
    /\ hashes_file = Put(EmptyDict, urls[1].url, sha256(t))
    /\ state_files = Put(EmptyDict, ItemKey(urls[1]), t)
    /\ own_text = <<t>>

InitFetch ==
    /\ \E item \in FetchItems : urls = <<item>>
    /\ StoredNothing \/ \E t \in FetchTexts : Stored(t)
    /\ creds = FALSE
    /\ pc = "loop"
    /\ run = 1
    /\ hashes = hashes_file
    /\ i = 1
    /\ changes_blocks = <<>>
    /\ sendpos = 0
    /\ calls = <<>>
    /\ posted = <<>>
    /\ saves = 0
    /\ last = NoLast
    /\ log = <<>>
    /\ pre_hashes_file = hashes_file
    /\ pre_state_files = state_files
    /\ f_url = urls[1].url
    /\ f_retries \in 0..MaxRetries
    /\ f_script \in Scripts(f_url, FetchTexts, f_retries)
    /\ f_res = FetchResult("none", <<>>, NoError, "none", <<>>, <<>>)
    /\ NoDiff

\* line 198: fetch_page(url, selector), with retries any number
CallFetchPage ==
    /\ f_res.ret = "none"
    /\ f_res' = fetch_page(f_url, f_retries, f_script)
    /\ UNCHANGED <<mainVars, f_url, f_retries, f_script, diffVars>>

\* lines 199-219 on what fetch_page did
ProcessFetched ==
    /\ pc = "loop"
    /\ i = 1
    /\ f_res.ret # "none"
    /\ Iterate([ret |-> f_res.ret, text |-> f_res.text, err |-> f_res.err,
                via |-> f_res.via])
    /\ UNCHANGED <<urls, hashes_file, creds, pc, run, sendpos, calls, posted, saves,
                   pre_hashes_file, pre_state_files, fetchVars, diffVars>>

NextFetch == CallFetchPage \/ ProcessFetched

SpecFetch == InitFetch /\ [][NextFetch]_vars

(***************************************************************************)
(* One call of diff_preview on two texts.                                  *)
(***************************************************************************)
DiffLines == {<<"a","b","c","d">>, <<"a","b","c","e">>,
              <<" ","a","b","c","d","e","f"," ">>}

DiffTexts == SeqsUpTo(DiffLines, MaxTextLines)

DiffMaxLines == {0, 1, 2, PreviewMaxLines}

DiffMaxLineLens == {0, 1, 3, 5, PreviewMaxLineLen}

InitDiff ==
    /\ urls = <<>>
    /\ own_text = <<>>
    /\ NoRun
    /\ NoFetch
    /\ d_old \in DiffTexts
    /\ d_new \in DiffTexts
    /\ d_max_lines \in DiffMaxLines
    /\ d_max_line_len \in DiffMaxLineLens
    /\ d_res = <<>>
    /\ d_pc = "called"

CallDiffPreview ==
    /\ d_pc = "called"
    /\ d_res' = diff_preview(d_old, d_new, d_max_lines, d_max_line_len)
    /\ d_pc' = "returned"
    /\ UNCHANGED <<mainVars, fetchVars, d_old, d_new, d_max_lines, d_max_line_len>>

NextDiff == CallDiffPreview

SpecDiff == InitDiff /\ [][NextDiff]_vars

(***************************************************************************)
(* The end of a run, from the state the loop leaves: the save and the      *)
(* sending of the digest (lines 222-232), for blocks of several sizes.     *)
(***************************************************************************)
\* a page of PreviewMaxLines lines of PreviewMaxLineLen characters: its
\* preview against no text is the longest diff_preview gives for line 213
LongText == [k \in 1..PreviewMaxLines |-> Repeat("x", PreviewMaxLineLen)]

\* an exception whose message is longer than a chunk
LongError == Error("HTTPError", Repeat("e", ChunkSize + 100))

ChunkItems == <<ItemWb, ItemOzon, ItemYa>>

ChunkItem(k) == ChunkItems[((k - 1) % Len(ChunkItems)) + 1]

\* what fetch_page did for an item: a short page, a long page, an error, a
\* long error
BlockShapes ==
    {[ret |-> "return", text |-> TextFee5, err |-> NoError, via |-> "primary"],
     [ret |-> "raise", text |-> <<>>, err |-> TransportError, via |-> "none"],
     [ret |-> "return", text |-> LongText, err |-> NoError, via |-> "primary"],
     [ret |-> "raise", text |-> <<>>, err |-> LongError, via |-> "none"]}

\* the loop run from item k on with shapes[k] what fetch_page does for item k
RECURSIVE RunLoop(_, _, _)
RunLoop(shapes, k, acc) ==
    IF k > Len(shapes) THEN acc
    ELSE RunLoop(shapes, k + 1,
                 [body |-> LoopBody(ChunkItem(k), shapes[k], acc.body.hashes,
                                    acc.body.files, acc.body.blocks),
                  log |-> Append(acc.log,
                                 LogEntry(LoopBody(ChunkItem(k), shapes[k], acc.body.hashes,
                                                   acc.body.files, acc.body.blocks).did))])

LoopStart ==
    [body |-> [hashes |-> EmptyDict, files |-> EmptyDict, blocks |-> <<>>, did |-> NoLast],
     log |-> <<>>]

\* the state after the loop of a first run
AfterLoop(shapes) ==
    /\ urls = [k \in DOMAIN shapes |-> ChunkItem(k)]
    /\ hashes = RunLoop(shapes, 1, LoopStart).body.hashes
    /\ state_files = RunLoop(shapes, 1, LoopStart).body.files
    /\ changes_blocks = RunLoop(shapes, 1, LoopStart).body.blocks
    /\ last = [RunLoop(shapes, 1, LoopStart).body.did EXCEPT !.idx = Len(shapes)]
    /\ log = RunLoop(shapes, 1, LoopStart).log
    /\ own_text = [k \in DOMAIN shapes |-> shapes[k].text]
    /\ i = Len(shapes) + 1

InitChunk ==
    /\ \E n \in 1..MaxBlocks : \E shapes \in [1..n -> BlockShapes] : AfterLoop(shapes)
    /\ hashes_file = EmptyDict
    /\ creds \in BOOLEAN
    /\ pc = "loop"
    /\ run = 1
    /\ sendpos = 0
    /\ calls = <<>>
    /\ posted = <<>>
    /\ saves = 0
    /\ pre_hashes_file = EmptyDict
    /\ pre_state_files = EmptyDict
    /\ NoFetch
    /\ NoDiff

NextChunk == SaveHashes \/ SendChunk

SpecChunk == InitChunk /\ [][NextChunk]_vars

(***************************************************************************)
(* The properties.                                                         *)
(***************************************************************************)
\* a step that runs the loop body for item i
IterationStep == pc = "loop" /\ i <= Len(urls) /\ i' = i + 1

\* the run is past its loop
PastLoop == pc \in {"notify", "done", "failed"} /\ Len(log) = Len(urls)

\* an iteration whose fetch fails changes no fingerprint and no stored text
C1_FailedStep ==
    (IterationStep /\ last'.ret = "raise")
        => /\ hashes' = hashes
           /\ state_files' = state_files
           /\ hashes_file' = hashes_file

\* past the loop, with A failed and B (another url) fetched, the saved map
\* holds for B what B fetched and for A what it held before the run
C1_AfterRun ==
    PastLoop =>
        \A a, b \in DOMAIN urls :
            (/\ log[a].ret = "raise"
             /\ log[b].ret = "return"
             /\ urls[a].url # urls[b].url
             /\ \A c \in DOMAIN urls : urls[c].url = urls[a].url => ~log[c].changed
             /\ \A c \in DOMAIN urls :
                    (c > b /\ urls[c].url = urls[b].url) => log[c].ret = "raise")
            => /\ Get(hashes_file, urls[b].url) = <<sha256(log[b].text)>>
               /\ Get(hashes_file, urls[a].url) = Get(pre_hashes_file, urls[a].url)

\* C1: an iteration whose fetch fails changes neither the fingerprints nor
\* the stored contents; and when a run is past its loop, with target A
\* failed and target B (another url) fetched, the saved map holds the
\* fingerprint of what B fetched and, for A, what it held before the run.
C1_FailureIsolated == [][C1_FailedStep]_vars /\ []C1_AfterRun

\* a run is over in which A, with a fingerprint from an earlier run, failed
\* and B was fetched and had changed
C1_Witness ==
    /\ pc = "done"
    /\ Len(log) = Len(urls)
    /\ \E a, b \in DOMAIN urls :
          /\ log[a].ret = "raise"
          /\ log[b].ret = "return"
          /\ log[b].changed
          /\ urls[a].url # urls[b].url
          /\ urls[a].url \in DOMAIN pre_hashes_file
          /\ urls[b].url \in DOMAIN pre_hashes_file

\* the step adds one change block, for item i
C2_Emitted ==
    /\ Len(changes_blocks') = Len(changes_blocks) + 1
    /\ SubSeq(changes_blocks', 1, Len(changes_blocks)) = changes_blocks
    /\ changes_blocks'[Len(changes_blocks')].kind = "change"
    /\ changes_blocks'[Len(changes_blocks')].url = urls[i].url

C2_Step ==
    (IterationStep /\ last'.ret = "return")
        => /\ C2_Emitted <=> Get(hashes, urls[i].url) # <<sha256(last'.text)>>
           /\ C2_Emitted \/ changes_blocks' = changes_blocks
           /\ Get(hashes, urls[i].url) = <<>> => C2_Emitted

\* C2: for a target fetched with fingerprint F1, a change block is added if
\* and only if F1 differs from the fingerprint stored for its url; with no
\* fingerprint stored it is always added.
C2_ChangeIffFingerprintDiffers == [][C2_Step]_vars

\* a target with a stored fingerprint was fetched unchanged, in a run that
\* has added a block for another target
C2_Witness ==
    /\ last.ret = "return"
    /\ ~last.changed
    /\ last.prev_digest = <<sha256(last.text)>>
    /\ \E k \in DOMAIN changes_blocks : changes_blocks[k].kind = "change"

\* an iteration keeps the snapshots of the other urls and diffs against the
\* text its own item stored last
C3_Step ==
    IterationStep
        => /\ \A k \in DOMAIN urls :
                 urls[k].url # urls[i].url
                    => ReadOrEmpty(state_files', ItemKey(urls[k]))
                         = ReadOrEmpty(state_files, ItemKey(urls[k]))
           /\ (last'.ret = "return" /\ last'.changed)
                 => last'.prev_content = own_text[i]

\* C3 (as stated): an iteration for one target leaves alone the snapshot of
\* every target with another url, and the previous text it diffs against is
\* the text last stored for that same target.
C3_SnapshotsPerTarget == [][C3_Step]_vars

(***************************************************************************)
(* fetch_page.                                                             *)
(***************************************************************************)
\* the failures after which the reader is to be tried: a blocked status, or
\* no HTTP answer at all
BlockedOrTransport(o) ==
    o.k = "exc" \/ (o.k = "http" /\ o.status \in {401, 403, 429, 500, 502, 503, 504})

InTrace(ev, n) == \E k \in DOMAIN f_res.trace : f_res.trace[k] = Event(ev, n)

CountEv(ev) == Cardinality({k \in DOMAIN f_res.trace : f_res.trace[k].ev = ev})

\* C4 (as stated): when fetch_page raises after at least one attempt, the
\* primary client was tried retries times, the reader was invoked, and every
\* invocation of the reader failed.
C4_RaiseMeansReaderFailed ==
    (f_res.ret = "raise" /\ f_retries >= 1)
        => /\ CountEv("primary") = f_retries
           /\ CountEv("fallback") >= 1
           /\ CountEv("fallback_failed") = CountEv("fallback")

\* C4 (amended): when fetch_page raises, the primary client was tried
\* retries times and failed each time; after a blocked status or a failure
\* that is no HTTP status the reader was invoked and failed; after any other
\* HTTP status the reader was not invoked.
C4_RaiseMeansAllAttemptsFailed ==
    f_res.ret = "raise"
        => /\ CountEv("primary") = f_retries
           /\ \A n \in 0..(f_retries - 1) :
                 /\ f_script[n + 1].p.k # "ok"
                 /\ BlockedOrTransport(f_script[n + 1].p)
                       => InTrace("fallback", n) /\ InTrace("fallback_failed", n)
                 /\ ~BlockedOrTransport(f_script[n + 1].p) => ~InTrace("fallback", n)

\* the default number of attempts, the first one blocked with the reader
\* failing, the second one answered with another status
C4_Witness ==
    /\ f_res.ret = "raise"
    /\ f_retries = DefaultRetries
    /\ InTrace("fallback_failed", 0)
    /\ ~InTrace("fallback", 1)

\* the reader returns for the answers js: the last one has a body, or all
\* are empty bodies (line 101 then returns "")
ReaderReturns(js) ==
    /\ js # <<>>
    /\ JinaReturns(js[Len(js)]) \/ \A k \in DOMAIN js : js[k].k = "body"

\* the event after a primary request that failed that way is the reader's
C5_ReaderNext ==
    \A k \in DOMAIN f_res.trace :
        (/\ f_res.trace[k].ev = "primary"
         /\ BlockedOrTransport(f_script[f_res.trace[k].n + 1].p))
        => /\ k < Len(f_res.trace)
           /\ f_res.trace[k + 1] = Event("fallback", f_res.trace[k].n)

\* when the reader returns, fetch_page returns its text and only the
\* reader's own events follow its invocation
C5_ReturnsAtOnce ==
    \A k \in DOMAIN f_res.trace :
        (/\ f_res.trace[k].ev = "fallback"
         /\ ReaderReturns(f_script[f_res.trace[k].n + 1].j))
        => /\ f_res.ret = "return"
           /\ f_res.text = f_script[f_res.trace[k].n + 1].j[
                               Len(f_script[f_res.trace[k].n + 1].j)].text
           /\ \A m \in DOMAIN f_res.trace :
                 m > k => f_res.trace[m].ev \in {"jina_get", "jina_sleep"}

\* main detects changes on a text of the reader and adds no error block
C5_MainGoesOn ==
    (last.idx = 1 /\ f_res.via = "fallback")
        => /\ last.ret = "return"
           /\ last.text = f_res.text
           /\ \A k \in DOMAIN changes_blocks : changes_blocks[k].kind = "change"
           /\ changes_blocks # <<>>
                 <=> Get(pre_hashes_file, f_url) # <<sha256(f_res.text)>>
           /\ Get(hashes, f_url) = <<sha256(f_res.text)>>

\* C5: after a blocked status or a failure that is no HTTP status the reader
\* is invoked next, before any sleep or further primary request; when the
\* reader returns, fetch_page returns its text with no further attempt; and
\* main then treats the text as any fetched text, adding no error block.
C5_FallbackBeforeBackoff == C5_ReaderNext /\ C5_ReturnsAtOnce /\ C5_MainGoesOn

\* the second attempt went to the reader, which returned a text that main
\* found changed
C5_Witness ==
    /\ last.idx = 1
    /\ f_res.via = "fallback"
    /\ InTrace("primary", 1)
    /\ last.changed

(***************************************************************************)
(* The save of the fingerprints and the state files.                       *)
(***************************************************************************)
\* C6 (as stated): every run writes the fingerprint map exactly once, after
\* all its targets and before any notification, whatever the targets did,
\* a run over an empty configuration included.
C6_SavedOnceEveryRun ==
    /\ pc \in {"notify", "done", "failed"} => saves = 1
    /\ saves = 1 => i > Len(urls)
    /\ saves = 0 => calls = <<>>

\* C6 (amended): a run over a configuration with targets that gets through
\* its loop writes the fingerprint map exactly once, after all its targets
\* and before any notification, whatever the targets did; a run over an
\* empty configuration, and a run that ends inside the loop, do not write it.
C6_SavedOnceAfterLoop ==
    /\ (urls # <<>> /\ pc \in {"notify", "done", "failed"})
          => saves = 1 /\ hashes_file = hashes
    /\ saves = 1 => i > Len(urls) /\ Len(log) = Len(urls)
    /\ saves = 0 => calls = <<>> /\ hashes_file = pre_hashes_file
    /\ (urls = <<>> \/ pc \in {"idle", "loop", "crashed"}) => saves = 0
    /\ saves <= 1

\* a run is over that wrote the map with no target changed: one target was
\* fetched unchanged
C6_Witness ==
    /\ pc = "done"
    /\ saves = 1
    /\ changes_blocks = <<>>
    /\ \E k \in DOMAIN log : log[k].ret = "return" /\ ~log[k].changed

\* C7 (as stated): when a run ends before its save, the fingerprint map and
\* the state files are both as they were before the run.
C7_CrashLeavesStateAsBefore ==
    pc = "crashed"
        => /\ hashes_file = pre_hashes_file
           /\ state_files = pre_state_files

(***************************************************************************)
(* The notification.                                                       *)
(***************************************************************************)
\* C8: the digest is sent as chunks of 1 to 4000 characters, in order, whose
\* concatenation is the digest, nothing lost, doubled or moved.
C8_ChunksAreTheDigest ==
    /\ \A k \in DOMAIN calls : Len(calls[k]) >= 1 /\ Len(calls[k]) <= 4000
    /\ Concat(calls) = Prefix(Full(changes_blocks), Len(Concat(calls)))
    /\ pc = "done" => Concat(calls) = Full(changes_blocks)

\* a digest of more than one chunk has been sent to its end
C8_Witness ==
    /\ pc = "done"
    /\ Len(calls) >= 2
    /\ Len(changes_blocks) >= 2

\* the number of characters of the digest before block b
BlockOffset(b) ==
    Len(Full(SubSeq(changes_blocks, 1, b - 1))) + (IF b > 1 THEN Len(BlockSeparator) ELSE 0)

\* the boundary between chunk c and chunk c + 1 is inside block b
SplitsBlock(c, b) ==
    /\ BlockOffset(b) < c * ChunkSize
    /\ c * ChunkSize < BlockOffset(b) + Len(RenderBlock(changes_blocks[b]))

\* C9 (as stated): a chunk boundary is inside a block only when the block
\* alone is longer than a chunk.
C9_BlocksKeptWhole ==
    pc = "done"
        => \A b \in DOMAIN changes_blocks : \A c \in 1..(Len(calls) - 1) :
               SplitsBlock(c, b) => Len(RenderBlock(changes_blocks[b])) > ChunkSize

(***************************************************************************)
(* diff_preview.                                                           *)
(***************************************************************************)
\* C10 (as stated): the preview has at most max_lines lines and no line of
\* it, mark and ellipsis counted, has more than max_line_len characters.
C10_PreviewBounded ==
    d_pc = "returned"
        => /\ Len(splitlines(d_res)) <= d_max_lines
           /\ \A k \in DOMAIN splitlines(d_res) :
                 Len(splitlines(d_res)[k]) <= d_max_line_len

(***************************************************************************)
(* The loop over the targets.                                              *)
(***************************************************************************)
\* the number of error blocks
ErrorBlocks == Cardinality({k \in DOMAIN changes_blocks : changes_blocks[k].kind = "error"})

\* the number of iterations whose fetch failed
FailedTargets == Cardinality({k \in DOMAIN log : log[k].ret = "raise"})

\* an iteration processes item i and goes on to item i + 1; one whose fetch
\* fails adds one error block with the name of the item and the error
C11_Step ==
    IterationStep
        => /\ pc' = "loop"
           /\ last'.idx = i
           /\ Len(log') = i
           /\ last'.ret = "raise"
                 => /\ Len(changes_blocks') = Len(changes_blocks) + 1
                    /\ SubSeq(changes_blocks', 1, Len(changes_blocks)) = changes_blocks
                    /\ changes_blocks'[Len(changes_blocks')].kind = "error"
                    /\ changes_blocks'[Len(changes_blocks')].name = ItemName(urls[i])
                    /\ changes_blocks'[Len(changes_blocks')].err.cls = last'.err.cls
                    /\ changes_blocks'[Len(changes_blocks')].err.cls # "None"

\* in the loop items 1..i-1 have been processed, once each; past the loop
\* all have, and the failures count as many as the error blocks
C11_Progress ==
    /\ pc = "loop" => Len(log) = i - 1 /\ i <= Len(urls) + 1
    /\ pc \in {"notify", "done", "failed"} /\ urls # <<>> => Len(log) = Len(urls)
    /\ ErrorBlocks = FailedTargets

\* C11: in a run over a configuration with targets each target is processed
\* once, in order; a target whose fetch fails adds one error block naming
\* the target and the class of the error, the targets after it are still
\* processed, and the run reaches the save and the notification.
C11_FailuresIsolated ==
    /\ [][C11_Step]_vars
    /\ []C11_Progress
    /\ (pc = "loop") ~> (saves = 1 /\ calls # <<>>)

\* a run has sent its digest after its first target failed and its second
\* target was fetched
C11_Witness ==
    /\ pc = "done"
    /\ Len(log) = 2
    /\ log[1].ret = "raise"
    /\ log[2].ret = "return"
    /\ calls # <<>>

(***************************************************************************)
(* tg_send.                                                                *)
(***************************************************************************)
\* a step that calls tg_send
SendStep == calls' # calls /\ run' = run

\* without the credentials a call posts nothing and returns; with them it
\* posts its message or ends the run; after that nothing more is sent
C12_Step ==
    /\ SendStep /\ ~creds => posted' = posted /\ pc' \in {"notify", "done"}
    /\ SendStep /\ creds /\ posted' = posted => pc' = "failed"
    /\ SendStep /\ creds /\ posted' # posted
          => posted' = Append(posted, calls'[Len(calls')]) /\ pc' \in {"notify", "done"}
    /\ pc = "failed" /\ run' = run => calls' = calls /\ posted' = posted /\ pc' = "failed"

C12_NoCredentials == ~creds => posted = <<>> /\ pc # "failed"

\* C12: without the token or the chat id tg_send makes no request and
\* returns, so the run ends without error; with both, a delivery that fails
\* ends the run as failed and no later chunk of the digest is sent.
C12_DeliveryOutcomes == [][C12_Step]_vars /\ []C12_NoCredentials

\* the first chunk of a digest of several chunks failed to be delivered
C12_Witness ==
    /\ pc = "failed"
    /\ creds
    /\ Len(calls) = 1
    /\ posted = <<>>
    /\ Len(Full(changes_blocks)) > ChunkSize

(***************************************************************************)
(* The requests, the sleeps and the error of a fetch_page call.            *)
(***************************************************************************)
\* the reader requests of the reader invocation at position k of the trace
ReaderRequests(k) ==
    {m \in DOMAIN f_res.trace :
        /\ m > k
        /\ f_res.trace[m].ev = "jina_get"
        /\ \A j \in (k + 1)..m : f_res.trace[j].ev \in {"jina_get", "jina_sleep"}}

\* the client the call is to use: the anti-bot one for the Ozon hosts
ClientFor(url) ==
    IF \/ Contains(url, <<"s","e","l","l","e","r",".","o","z","o","n",".","r","u">>)
       \/ Contains(url, <<"s","e","l","l","e","r","-","e","d","u",".","o","z","o","n",".","r","u">>)
    THEN "cloudscraper" ELSE "requests"

\* C13: a fetch_page call ends, returning or raising, after at most retries
\* primary requests and at most retries invocations of the reader, each of
\* at most two reader requests; every primary request is made with the one
\* client chosen for the url.
C13_BoundedRequests ==
    f_res.ret # "none"
        => /\ f_res.ret \in {"return", "raise"}
           /\ CountEv("primary") <= f_retries
           /\ CountEv("fallback") <= f_retries
           /\ \A k \in DOMAIN f_res.trace :
                 f_res.trace[k].ev = "fallback" => Cardinality(ReaderRequests(k)) <= 2
           /\ \A k \in DOMAIN f_res.trace :
                 f_res.trace[k].ev = "primary"
                    => k > 1 /\ f_res.trace[k - 1] = Event(ClientFor(f_url), f_res.trace[k].n)
           /\ CountEv("cloudscraper") + CountEv("requests") = CountEv("primary")

\* a call with the default number of attempts used them all, each with the
\* anti-bot client and each going to the reader
C13_Witness ==
    /\ f_res.ret = "raise"
    /\ f_retries = DefaultRetries
    /\ CountEv("cloudscraper") = DefaultRetries
    /\ CountEv("fallback") = DefaultRetries

\* a call made two reader requests in one invocation of the reader
C13_TwoReaderRequests ==
    \E k \in DOMAIN f_res.trace :
        f_res.trace[k].ev = "fallback" /\ Cardinality(ReaderRequests(k)) = 2

\* the positions of the backoff sleeps in the trace
Sleeps == {k \in DOMAIN f_res.trace : f_res.trace[k].ev = "sleep"}

\* the index of the attempt that position k of the trace belongs to
AttemptAt(k) ==
    Cardinality({m \in 1..k : f_res.trace[m].ev = "primary"}) - 1

\* the sleep at position k follows the failure of its attempt, of the
\* primary request and of the reader if it was tried, and lasts 1 + the
\* index of the attempt; the next attempt follows it if there is one
C14_SleepAt(k) ==
    /\ f_res.trace[k].n = 1 + AttemptAt(k)
    /\ f_res.trace[k].n = Cardinality({m \in Sleeps : m <= k})
    /\ f_script[AttemptAt(k) + 1].p.k # "ok"
    /\ \/ f_res.trace[k - 1] = Event("primary", AttemptAt(k))
       \/ f_res.trace[k - 1] = Event("fallback_failed", AttemptAt(k))
    /\ AttemptAt(k) + 1 < f_retries
          => /\ k + 2 <= Len(f_res.trace)
             /\ f_res.trace[k + 2] = Event("primary", AttemptAt(k) + 1)
    /\ AttemptAt(k) + 1 >= f_retries => k = Len(f_res.trace) /\ f_res.ret = "raise"

\* C14: the backoff sleep after the failed attempt k, its reader included,
\* is 1 + k seconds, so the sleeps of a call are 1, 2, 3, ...; a retry of
\* the primary follows a sleep while attempts are left; and no sleep
\* follows an attempt whose primary request or reader succeeded.
C14_LinearBackoff ==
    f_res.ret # "none"
        => /\ \A k \in Sleeps : C14_SleepAt(k)
           /\ f_res.ret = "return" => Cardinality(Sleeps) = CountEv("primary") - 1
           /\ f_res.ret = "raise" => Cardinality(Sleeps) = f_retries

\* a call slept 1 and 2 seconds and then got the text from the reader
C14_Witness ==
    /\ f_res.ret = "return"
    /\ f_res.via = "fallback"
    /\ InTrace("sleep", 1)
    /\ InTrace("sleep", 2)
    /\ ~InTrace("sleep", 3)

\* the last reader request of the answers js that failed
LastFailed(js) ==
    CHOOSE k \in DOMAIN js :
        js[k].k = "fail" /\ \A m \in DOMAIN js : js[m].k = "fail" => m <= k

\* the most recent error of a call that used up its attempts: the reader's
\* if the last attempt went to the reader, else the last primary request's
LastError ==
    IF BlockedOrTransport(f_script[f_retries].p)
    THEN JinaError(LastFailed(f_script[f_retries].j))
    ELSE HTTPError(f_script[f_retries].p.status)

\* s ends with t
EndsWith(s, t) == Len(s) >= Len(t) /\ SubSeq(s, Len(s) - Len(t) + 1, Len(s)) = t

\* C15: when fetch_page has used up its attempts, it raises the most recent
\* error of the call, the reader's if the reader was invoked on the last
\* attempt and the last primary request's otherwise; main's error block for
\* the target has the class name and the message of that error.
C15_LastErrorReported ==
    (f_res.ret = "raise" /\ f_retries >= 1)
        => /\ f_res.err = LastError
           /\ last.idx = 1
                 => /\ Len(changes_blocks) = 1
                    /\ changes_blocks[1].kind = "error"
                    /\ changes_blocks[1].err = LastError
                    /\ EndsWith(RenderBlock(changes_blocks[1]),
                                <<LastError.cls, ":", " ">> \o LastError.msg)

\* main has reported the reader's error of the last attempt of a call whose
\* first attempt ended with another HTTP error
C15_Witness ==
    /\ last.idx = 1
    /\ f_res.ret = "raise"
    /\ f_retries = DefaultRetries
    /\ f_script[1].p.k = "http"
    /\ ~BlockedOrTransport(f_script[1].p)
    /\ f_res.err.cls = "ReadTimeout"

(***************************************************************************)
(* Unchanged targets.                                                      *)
(***************************************************************************)
\* an iteration that fetches the text whose fingerprint is stored for the
\* url adds no block and writes neither the map nor any state file
C16_Step ==
    (/\ IterationStep
     /\ last'.ret = "return"
     /\ Get(hashes, urls[i].url) = <<sha256(last'.text)>>)
        => /\ changes_blocks' = changes_blocks
           /\ hashes' = hashes
           /\ state_files' = state_files

\* every target of the run was fetched and found unchanged
AllUnchanged ==
    /\ urls # <<>>
    /\ Len(log) = Len(urls)
    /\ \A k \in DOMAIN log : log[k].ret = "return" /\ ~log[k].changed

\* such a run calls tg_send once, with the header and the no-changes text
C16_OneMessage ==
    (AllUnchanged /\ pc \in {"done", "failed"})
        => /\ calls = <<Header \o NoChangesText>>
           /\ changes_blocks = <<>>
           /\ (creds /\ pc = "done") => posted = calls

\* C16: a target fetched with the fingerprint stored for its url adds no
\* block and leaves its map entry and its snapshot file as they are; a run
\* in which every target is unchanged sends one message, the header with
\* the no-changes text.
C16_UnchangedIsQuiet == [][C16_Step]_vars /\ []C16_OneMessage

\* a run over two targets, both unchanged, has posted its one message
C16_Witness ==
    /\ pc = "done"
    /\ creds
    /\ Len(urls) = 2
    /\ AllUnchanged
    /\ posted = <<Header \o NoChangesText>>

(***************************************************************************)
(* The preview is never empty.                                             *)
(***************************************************************************)
\* a line of a preview: a mark, a space, the text
IsMarkedLine(line) ==
    StartsWith(line, <<MarkAdded, " ">>) \/ StartsWith(line, <<MarkRemoved, " ">>)

\* C17: diff_preview never returns the empty string: for any two texts,
\* equal ones and an empty previous text included, it returns the
\* placeholder or at least one line, each marked as added or removed.
C17_PreviewNeverEmpty ==
    d_pc = "returned"
        => /\ d_res # <<>>
           /\ \/ d_res = Placeholder
              \/ /\ Len(splitlines(d_res)) >= 1
                 /\ \A k \in DOMAIN splitlines(d_res) : IsMarkedLine(splitlines(d_res)[k])
           /\ d_old = d_new => d_res = Placeholder

\* the placeholder was returned for two equal texts, with main's limits
C17_Witness ==
    /\ d_pc = "returned"
    /\ d_old = d_new
    /\ d_old # <<>>
    /\ d_max_lines = PreviewMaxLines
    /\ d_max_line_len = PreviewMaxLineLen
    /\ d_res = Placeholder

\* marked lines were returned for a first observation, with main's limits
C17_FirstObservation ==
    /\ d_pc = "returned"
    /\ d_old = <<>>
    /\ d_new # <<>>
    /\ d_max_lines = PreviewMaxLines
    /\ d_res # Placeholder

(***************************************************************************)
(* The two stores.                                                         *)
(***************************************************************************)
\* the targets have pairwise different urls and pairwise different keys
DistinctTargets ==
    \A a, b \in DOMAIN urls :
        a # b => urls[a].url # urls[b].url /\ ItemKey(urls[a]) # ItemKey(urls[b])

\* every target with a fingerprint in the map h has a snapshot with it
StoresAgree(h) ==
    \A k \in DOMAIN urls :
        urls[k].url \in DOMAIN h
            => /\ ItemKey(urls[k]) \in DOMAIN state_files
               /\ sha256(state_files[ItemKey(urls[k])]) = h[urls[k].url]

\* the preview of one line removed and one line added
OneRemovedOneAdded(old, new) ==
    <<MarkRemoved, " ">> \o old \o <<"\n", MarkAdded, " ">> \o new

\* C18: from empty state, with targets of pairwise different urls and
\* keys, after any number of runs that got through their loop every target
\* with a stored fingerprint has a snapshot with that fingerprint; so a
\* later change is diffed against the text of the previous change: "Fee5"
\* then "Fee7" gives one removed and one added line.
C18_StoresAgreeAfterRuns ==
    DistinctTargets
        => /\ StoresAgree(hashes)
           /\ pc # "loop" => StoresAgree(hashes_file)
           /\ (last.changed /\ last.prev_digest # <<>>)
                 => last.prev_digest = <<sha256(last.prev_content)>>
           /\ (last.changed /\ last.prev_content = TextFee5 /\ last.text = TextFee7)
                 => changes_blocks[Len(changes_blocks)].preview
                      = OneRemovedOneAdded(TextFee5[1], TextFee7[1])

\* in a later run a target stored with "Fee5" was fetched with "Fee7"
C18_Witness ==
    /\ DistinctTargets
    /\ Len(urls) = 2
    /\ run = 2
    /\ last.changed
    /\ last.prev_digest = <<sha256(TextFee5)>>
    /\ last.text = TextFee7

(***************************************************************************)
(* The save comes before the delivery.                                     *)
(***************************************************************************)
\* once tg_send has been called the map of the run is saved
C19_SavedBeforeSend == calls # <<>> => saves = 1 /\ hashes_file = hashes

\* iteration k is the last of the run that changed the entry of its url
LastForUrl(k) ==
    \A c \in DOMAIN log : (c > k /\ urls[c].url = urls[k].url) => ~log[c].changed

\* iteration k is the last of the run that wrote the state file of its key
LastForKey(k) ==
    \A c \in DOMAIN log :
        (c > k /\ ItemKey(urls[c]) = ItemKey(urls[k])) => ~log[c].changed

\* when the delivery has failed, what the run found changed is on disk
C19_Persisted ==
    pc = "failed"
        => \A k \in DOMAIN log :
              log[k].changed
                 => /\ LastForUrl(k)
                       => Get(hashes_file, urls[k].url) = <<sha256(log[k].text)>>
                    /\ LastForKey(k)
                       => ReadOrEmpty(state_files, ItemKey(urls[k])) = log[k].text

\* the run after a failed delivery starts from what is on disk, and a run
\* adds no block for a text whose fingerprint it started with
C19_Step ==
    /\ (pc = "failed" /\ run' = run + 1)
          => hashes' = hashes /\ hashes' = hashes_file /\ state_files' = state_files
    /\ (/\ IterationStep
        /\ last'.ret = "return"
        /\ Get(pre_hashes_file, urls[i].url) = <<sha256(last'.text)>>
        /\ Get(hashes, urls[i].url) = Get(pre_hashes_file, urls[i].url))
          => changes_blocks' = changes_blocks

\* C19: a run that reaches the notification has saved the fingerprint map
\* before its first tg_send call; so when the delivery fails the new
\* fingerprints and snapshots stay on disk, and the next run adds no change
\* block for a target whose page text is the same.
C19_SaveBeforeDelivery ==
    /\ []C19_SavedBeforeSend
    /\ []C19_Persisted
    /\ [][C19_Step]_vars

\* the delivery of a digest with a change failed; the change is on disk
C19_Witness ==
    /\ pc = "failed"
    /\ \E k \in DOMAIN log : log[k].changed
    /\ hashes_file # pre_hashes_file
    /\ posted = <<>>

(***************************************************************************)
(* The reader answers with empty bodies.                                   *)
(***************************************************************************)
\* every reader request of the answers js ended without error, with a body
\* that is empty after trimming
AllEmptyBodies(js) ==
    /\ js # <<>>
    /\ \A k \in DOMAIN js : js[k].k = "body" /\ js[k].text = <<>>

\* the reader was invoked in the call and got only empty bodies
ReaderGotNothing ==
    \E k \in DOMAIN f_res.trace :
        /\ f_res.trace[k].ev = "fallback"
        /\ AllEmptyBodies(f_script[f_res.trace[k].n + 1].j)

\* C20: when every reader request ends without error with an empty body,
\* fetch_via_jina returns the empty string; fetch_page returns it as a
\* fetched text, and main treats it as content: it stores the fingerprint
\* of the empty text, and an empty snapshot when the fingerprint differs
\* from the stored one, and adds no error block.
C20_EmptyReaderTextIsContent ==
    ReaderGotNothing
        => /\ f_res.ret = "return"
           /\ f_res.via = "fallback"
           /\ f_res.text = <<>>
           /\ last.idx = 1
                 => /\ last.ret = "return"
                    /\ \A k \in DOMAIN changes_blocks : changes_blocks[k].kind = "change"
                    /\ Get(hashes, f_url) = <<sha256(<<>>)>>
                    /\ Get(pre_hashes_file, f_url) # <<sha256(<<>>)>>
                          => /\ ItemKey(urls[1]) \in DOMAIN state_files
                             /\ state_files[ItemKey(urls[1])] = <<>>
                             /\ Len(changes_blocks) = 1

\* both reader addresses answered with empty bodies for a target stored
\* with a text, and main has replaced the snapshot by the empty text
C20_Witness ==
    /\ last.idx = 1
    /\ ReaderGotNothing
    /\ NumBases(f_url) = 2
    /\ pre_state_files # EmptyDict
    /\ state_files[ItemKey(urls[1])] = <<>>

====
